---- MODULE Spec2Model ----
(***************************************************************************)
(* The NFLX PnL dashboard: the Streamlit script src/dashboard/app.py,      *)
(* which keeps a price frame and a watermark in st.session_state and is   *)
(* rerun from its first line on every refresh, and the indicator pipeline *)
(* of src/dashboard/strategy.py.                                          *)
(*                                                                         *)
(* A pandas DataFrame is a record [cols, rows]: cols is the set of column *)
(* names, rows the sequence of rows in positional order, each with its    *)
(* index label ts. Timestamps are whole minutes. Prices are whole numbers.*)
(* A float64 cell is a record [k, v]: k is "num", "nan" or "inf" and v    *)
(* is the value in fixed point, Scale units to 1.0, rounded down.         *)
(***************************************************************************)
EXTENDS Integers, Sequences, FiniteSets, TLC

(***************************************************************************)
(* Bounds of the model.                                                    *)
(***************************************************************************)
\* fixed-point resolution of a float cell
Scale == 1000
\* reruns of the script in one session
MaxCycles == 2
\* minute bars in the live bootstrap batch
MaxLive == 1
\* the fetched bar's price is the latest stored price or that plus PriceStep
PriceStep == 3
\* longest frame handed to the pipeline functions on their own
MaxFnLen == 5
\* largest price, and largest window, handed to the pipeline functions on their own
MaxFnPrice == 2
MaxFnWindow == 4

(***************************************************************************)
(* Program constants.                                                      *)
(***************************************************************************)
\* compute_realized_vol(prices, window=20), app.py line 176
vol_window == 20
\* compute_signal(prices, ma_window=50), app.py line 177
ma_window == 50
\* target_vol = 0.10 = 1 / TargetVolInverse, app.py line 178
TargetVolInverse == 10
\* max_leverage = 2.0, strategy.py line 48
MaxLeverageUnits == 2
\* np.sqrt(252), strategy.py line 15
AnnualisationDays == 252
\* pd.Timedelta(days=1) in minutes, the resolution of the 1m bars
MinutesPerDay == 1440
\* pd.Timedelta(days=7) and pd.Timedelta(days=30), app.py lines 190 and 192
WeekDays == 7
MonthDays == 30
\* START_DATE = pd.Timestamp("2025-01-01"), as a day number counted from 2024-01-01
StartDateDay == 366

(***************************************************************************)
(* float64 cells.                                                          *)
(***************************************************************************)
NaN == [k |-> "nan", v |-> 0]
Inf == [k |-> "inf", v |-> 0]
Num(x) == [k |-> "num", v |-> x]
IsNum(f) == f.k = "num"
IsNaN(f) == f.k = "nan"

\* x / y of two float cells (numpy: x / 0.0 is inf for x > 0, nan / y is nan)
FDiv(x, y) ==
    IF IsNaN(x) \/ IsNaN(y) THEN NaN
    ELSE IF y.k = "inf" THEN (IF x.k = "inf" THEN NaN ELSE Num(0))
    ELSE IF x.k = "inf" THEN Inf
    ELSE IF y.v = 0 THEN (IF x.v = 0 THEN NaN ELSE Inf)
    ELSE Num((x.v * Scale) \div y.v)

\* x * y of two float cells
FMul(x, y) ==
    IF IsNaN(x) \/ IsNaN(y) THEN NaN
    ELSE IF x.k = "inf" \/ y.k = "inf"
         THEN (IF (IsNum(x) /\ x.v = 0) \/ (IsNum(y) /\ y.v = 0) THEN NaN ELSE Inf)
    ELSE Num((x.v * y.v) \div Scale)

\* x * n of a float cell and an int64 cell (the Signal column is int64)
FMulInt(x, n) ==
    IF IsNaN(x) \/ IsNaN(n) THEN NaN
    ELSE IF x.k = "inf" THEN (IF n.v = 0 THEN NaN ELSE Inf)
    ELSE Num(x.v * n.v)

\* Series.fillna(0)
FillNa0(x) == IF IsNaN(x) THEN Num(0) ELSE x

\* Series.clip(upper=u): nan stays nan
ClipUpper(x, u) ==
    IF IsNaN(x) THEN NaN
    ELSE IF x.k = "inf" THEN Num(u)
    ELSE IF x.v > u THEN Num(u) ELSE x

RECURSIVE ISqrtIn(_, _, _)
ISqrtIn(n, lo, hi) ==
    IF hi - lo <= 1 THEN lo
    ELSE LET mid == (lo + hi) \div 2
         IN  IF mid * mid <= n THEN ISqrtIn(n, mid, hi) ELSE ISqrtIn(n, lo, mid)

\* the integer square root, rounded down
ISqrt(n) == ISqrtIn(n, 0, IF n + 1 < 46341 THEN n + 1 ELSE 46341)

\* np.sqrt(252) in fixed point
SqrtAnnual == ISqrt(AnnualisationDays * Scale * Scale)

(***************************************************************************)
(* Frames.                                                                 *)
(***************************************************************************)
\* a row holding only its label and its Price: every other cell is nan
PriceRow(t, p) ==
    [ts |-> t, Price |-> p, Return |-> NaN, Realized_Vol |-> NaN, ma_50 |-> NaN,
     Signal |-> NaN, Position |-> NaN, Position_lag |-> NaN, PnL |-> NaN,
     cumu_PnL |-> NaN]

EmptyFrame == [cols |-> {"Price"}, rows |-> << >>]

\* a sequence given as a function, as the tuple of its values
Materialise(s) == SubSeq(s, 1, Len(s))

RECURSIVE SumTo(_, _, _)
\* f[a] + ... + f[b]
SumTo(f, a, b) == IF a > b THEN 0 ELSE f[b] + SumTo(f, a, b - 1)

(***************************************************************************)
(* strategy.py                                                             *)
(***************************************************************************)
\* Series.pct_change(): price[i] / price[i-1] - 1, nan in the first row
PctChange(rows, i) ==
    IF i = 1 THEN NaN
    ELSE Num((rows[i].Price * Scale) \div rows[i - 1].Price - Scale)

compute_returns(prices) ==
    [cols |-> prices.cols \cup {"Return"},
     rows |-> Materialise([i \in 1..Len(prices.rows) |->
                 [prices.rows[i] EXCEPT !.Return = PctChange(prices.rows, i)]])]

\* Series.rolling(window).std(): the sample standard deviation (ddof = 1) of the
\* last `window` cells, nan unless there are `window` of them and none is nan
RollingStd(rows, i, window) ==
    IF i < window \/ window < 2 \/ \E j \in (i - window + 1)..i : ~IsNum(rows[j].Return)
    THEN NaN
    ELSE LET lo   == i - window + 1
             r    == [j \in lo..i |-> rows[j].Return.v]
             mean == SumTo(r, lo, i) \div window
             sq   == [j \in lo..i |-> (r[j] - mean) * (r[j] - mean)]
         IN  Num(ISqrt(SumTo(sq, lo, i) \div (window - 1)))

compute_realized_vol(prices, window) ==
    [cols |-> prices.cols \cup {"Realized_Vol"},
     rows |-> Materialise([i \in 1..Len(prices.rows) |->
                 [prices.rows[i] EXCEPT
                    !.Realized_Vol = FMul(RollingStd(prices.rows, i, window),
                                          Num(SqrtAnnual))]])]

\* Series.rolling(w).mean() of Price
RollingMean(rows, i, w) ==
    IF i < w THEN NaN
    ELSE LET p == [j \in (i - w + 1)..i |-> rows[j].Price]
         IN  Num((SumTo(p, i - w + 1, i) * Scale) \div w)

\* (Price > ma_50).astype(int): a comparison with nan is False
PriceAbove(price, ma) == IF IsNum(ma) /\ price * Scale > ma.v THEN Num(1) ELSE Num(0)

SignalRow(rows, i, w) ==
    LET ma == RollingMean(rows, i, w)
    IN  [rows[i] EXCEPT !.ma_50 = ma, !.Signal = PriceAbove(rows[i].Price, ma)]

compute_signal(prices, w) ==
    [cols |-> prices.cols \cup {"ma_50", "Signal"},
     rows |-> Materialise([i \in 1..Len(prices.rows) |-> SignalRow(prices.rows, i, w)])]

\* RawPosition without the clip
RawPositionUnclipped(vol, target_vol, max_leverage) == FDiv(Num(target_vol), vol)

\* raw_position = (target_vol / Realized_Vol).clip(upper=max_leverage)
RawPosition(vol, target_vol, max_leverage) ==
    ClipUpper(FDiv(Num(target_vol), vol), max_leverage)

\* Position = (raw_position * Signal).fillna(0)
PositionOf(row, target_vol, max_leverage) ==
    FillNa0(FMulInt(RawPosition(row.Realized_Vol, target_vol, max_leverage), row.Signal))

\* Shift1 without the shift: the same row's cell
Shift1SameRow(rows, i) == rows[i].Position

\* Series.shift(1): the previous row's cell, nan in the first row
Shift1(rows, i) == IF i = 1 THEN NaN ELSE rows[i - 1].Position

\* the Position column, line 54-55
WithPosition(rows, target_vol, max_leverage) ==
    Materialise([i \in 1..Len(rows) |->
        [rows[i] EXCEPT !.Position = PositionOf(rows[i], target_vol, max_leverage)]])

\* the Position_lag column, line 56
WithPositionLag(rows) ==
    Materialise([i \in 1..Len(rows) |-> [rows[i] EXCEPT !.Position_lag = Shift1(rows, i)]])

compute_position(prices, target_vol, max_leverage) ==
    [cols |-> prices.cols \cup {"Position", "Position_lag"},
     rows |-> WithPositionLag(WithPosition(prices.rows, target_vol, max_leverage))]

\* PnL = (Position_lag * Return).fillna(0)
PnLOf(row) == FillNa0(FMul(row.Position_lag, row.Return))

\* Series.cumsum() of a column without nan
CumSum(rows, i) ==
    LET p == [j \in 1..i |-> rows[j].PnL.v]
    IN  Num(SumTo(p, 1, i))

\* the PnL column, lines 64-65
WithPnL(rows) ==
    Materialise([i \in 1..Len(rows) |-> [rows[i] EXCEPT !.PnL = PnLOf(rows[i])]])

\* the cumu_PnL column, line 67
WithCumuPnL(rows) ==
    Materialise([i \in 1..Len(rows) |-> [rows[i] EXCEPT !.cumu_PnL = CumSum(rows, i)]])

compute_cumulative_pnl(prices) ==
    [cols |-> prices.cols \cup {"PnL", "cumu_PnL"},
     rows |-> WithCumuPnL(WithPnL(prices.rows))]

\* the defaults of compute_position, in fixed point
TargetVol == Scale \div TargetVolInverse
MaxLeverage == MaxLeverageUnits * Scale

\* lines 175-179 of app.py: the five stages in their order
RunPipeline(prices) ==
    compute_cumulative_pnl(
        compute_position(
            compute_signal(
                compute_realized_vol(compute_returns(prices), vol_window),
                ma_window),
            TargetVol, MaxLeverage))

(***************************************************************************)
(* pandas operations of app.py                                             *)
(***************************************************************************)
IndexSet(rows) == {rows[i].ts : i \in 1..Len(rows)}

\* prices.index.max() and prices.index.min()
IndexMax(rows) == CHOOSE t \in IndexSet(rows) : \A u \in IndexSet(rows) : u <= t
IndexMin(rows) == CHOOSE t \in IndexSet(rows) : \A u \in IndexSet(rows) : t <= u

\* DataFrame.sort_index(): the rows in the order of their labels. The default sort
\* is not a stable one: rows of equal label come out in their order (tiesReversed
\* FALSE) or in the opposite one.
SortIndex(rows, tiesReversed) ==
    LET n == Len(rows)
        rank == [i \in 1..n |->
                   1 + Cardinality({j \in 1..n : rows[j].ts < rows[i].ts})
                     + Cardinality({j \in 1..n : /\ rows[j].ts = rows[i].ts
                                                 /\ IF tiesReversed THEN j > i ELSE j < i})]
    IN  Materialise([k \in 1..n |-> rows[CHOOSE i \in 1..n : rank[i] = k]])

RECURSIVE KeepFirst(_, _)
\* the rows up to position i whose Price no earlier row holds
KeepFirst(rows, i) ==
    IF i = 0 THEN << >>
    ELSE IF \E j \in 1..(i - 1) : rows[j].Price = rows[i].Price
         THEN KeepFirst(rows, i - 1)
         ELSE Append(KeepFirst(rows, i - 1), rows[i])

\* DataFrame.drop_duplicates(): drops the rows that repeat an earlier row's column
\* values (the frame has the one column Price; the index is not looked at)
DropDuplicates(rows) == KeepFirst(rows, Len(rows))

\* LocSetRow on a buffer that holds no more rows than it held: a new label's row
\* pushes the oldest row out
LocSetRowEvicting(frame, t, p) ==
    IF t \in IndexSet(frame.rows)
    THEN [frame EXCEPT !.rows = [i \in 1..Len(frame.rows) |->
                                   IF frame.rows[i].ts = t THEN PriceRow(t, p)
                                   ELSE frame.rows[i]]]
    ELSE [frame EXCEPT !.rows = Tail(Append(frame.rows, PriceRow(t, p)))]

\* st.session_state.prices.loc[ts] = latest.iloc[0]: with the label in the index,
\* every row of that label is overwritten by the Series reindexed to the frame's
\* columns (Price, and nan in every other column); else a row is appended
LocSetRow(frame, t, p) ==
    IF t \in IndexSet(frame.rows)
    THEN [frame EXCEPT !.rows = [i \in 1..Len(frame.rows) |->
                                   IF frame.rows[i].ts = t THEN PriceRow(t, p)
                                   ELSE frame.rows[i]]]
    ELSE [frame EXCEPT !.rows = Append(frame.rows, PriceRow(t, p))]

RangeChoices == {"1D", "1W", "1M", "1Y"}

\* START_DATE in minutes
START_DATE == StartDateDay * MinutesPerDay

\* the first label of the range shown, lines 187-194
RangeStart(choice, now) ==
    CASE choice = "1D" -> now - MinutesPerDay
      [] choice = "1W" -> now - WeekDays * MinutesPerDay
      [] choice = "1M" -> now - MonthDays * MinutesPerDay
      [] choice = "1Y" -> START_DATE

\* prices[prices.index >= start]
SelectFrom(frame, start) ==
    [frame EXCEPT !.rows = SelectSeq(frame.rows, LAMBDA r : r.ts >= start)]

(***************************************************************************)
(* What the data source returns: yf.download is outside the program.       *)
(***************************************************************************)
HistLens == {1, 2, ma_window - 1}
Patterns == {"zigzag", "plateau"}
\* the first daily bar's day: the year of history ends after START_DATE
FirstDay == StartDateDay - ma_window \div 2
\* the first minute bar: at the last daily bar's label, or a minute after it
LiveOffsets == {0, 1}

\* the i-th daily close
PatternPrice(pat, i) ==
    IF pat = "zigzag" THEN 100 + 2 * i + 5 * (i % 2) ELSE 100 + i \div 2

\* load_historical_prices(): n daily bars
Historical(n, pat) ==
    [i \in 1..n |-> PriceRow((FirstDay + i - 1) * MinutesPerDay, PatternPrice(pat, i))]

\* bootstrap_live_prices(): m minute bars on the last day
Live(n, pat, m, off) ==
    [j \in 1..m |-> PriceRow((FirstDay + n - 1) * MinutesPerDay + off + j - 1,
                             PatternPrice(pat, n) + j)]

NoBar == [empty |-> TRUE, ts |-> 0, Price |-> 0]

\* the price of a row labelled t
PriceAt(rows, t) == rows[CHOOSE i \in 1..Len(rows) : rows[i].ts = t].Price

\* fetch_latest_bar(): nothing, or one bar: the latest stored label again (with its
\* price or another), the next minute, or the minute before the latest label
FetchChoices(rows) ==
    LET mx == IndexMax(rows)
        p  == PriceAt(rows, mx)
    IN  {NoBar} \cup
        {[empty |-> FALSE, ts |-> mx, Price |-> q] : q \in {p, p + PriceStep}} \cup
        {[empty |-> FALSE, ts |-> t, Price |-> p + PriceStep] : t \in {mx - 1, mx + 1}}

(***************************************************************************)
(* State.                                                                  *)
(***************************************************************************)
VARIABLES
    has_prices,                 \* "prices" in st.session_state
    session_prices,             \* st.session_state.prices
    has_until,                  \* "strategy_computed_until" in st.session_state
    strategy_computed_until,    \* st.session_state.strategy_computed_until
    pc,                         \* where the script run is
    latest,                     \* the script's local latest
    prices,                     \* the script's local prices
    plot_prices,                \* the script's local plot_prices
    range_choice,               \* the script's local range_choice, the radio's value
    cycles,                     \* script runs started
    start,                      \* the session state as the script run began
    fn_stage, fn_prices, fn_window, fn_ma_window   \* a pipeline function call

appVars == <<has_prices, session_prices, has_until, strategy_computed_until, pc,
             latest, prices, plot_prices, range_choice, cycles, start>>
fnVars == <<fn_stage, fn_prices, fn_window, fn_ma_window>>
vars == <<appVars, fnVars>>

Resting == {"idle", "stopped", "done", "interrupted"}
Running == {"fetch", "reference", "strategy", "select", "warmup", "metrics", "render"}

Snapshot(frame, hasUntil, until) ==
    [prices |-> frame, has_until |-> hasUntil, until |-> until]

AppInit ==
    /\ has_prices = FALSE
    /\ session_prices = EmptyFrame
    /\ has_until = FALSE
    /\ strategy_computed_until = 0
    /\ pc = "idle"
    /\ latest = NoBar
    /\ prices = EmptyFrame
    /\ plot_prices = EmptyFrame
    /\ range_choice = "1D"
    /\ cycles = 0
    /\ start = Snapshot(EmptyFrame, FALSE, 0)

FnIdle ==
    /\ fn_stage = "none"
    /\ fn_prices = EmptyFrame
    /\ fn_window = 0
    /\ fn_ma_window = 0

Init == AppInit /\ FnIdle

(***************************************************************************)
(* One run of the script, app.py top to bottom.                            *)
(***************************************************************************)
\* lines 139-147: the first run of a session builds the price buffer
InitialisePriceBuffer ==
    /\ pc \in Resting
    /\ ~has_prices
    /\ cycles < MaxCycles
    /\ \E n \in HistLens, pat \in Patterns, m \in 0..MaxLive, off \in LiveOffsets,
          tiesReversed \in BOOLEAN :
          LET frame == [cols |-> {"Price"},
                        rows |-> DropDuplicates(
                                    SortIndex(Historical(n, pat) \o Live(n, pat, m, off),
                                              tiesReversed))]
          IN  /\ session_prices' = frame
              /\ start' = Snapshot(frame, has_until, strategy_computed_until)
    /\ has_prices' = TRUE
    /\ cycles' = cycles + 1
    /\ pc' = "fetch"
    /\ latest' = NoBar
    /\ prices' = EmptyFrame
    /\ plot_prices' = EmptyFrame
    /\ UNCHANGED <<has_until, strategy_computed_until, range_choice, fnVars>>

\* a later run: the buffer is in the session state
Rerun ==
    /\ pc \in Resting
    /\ has_prices
    /\ cycles < MaxCycles
    /\ cycles' = cycles + 1
    /\ start' = Snapshot(session_prices, has_until, strategy_computed_until)
    /\ pc' = "fetch"
    /\ latest' = NoBar
    /\ prices' = EmptyFrame
    /\ plot_prices' = EmptyFrame
    /\ UNCHANGED <<has_prices, session_prices, has_until, strategy_computed_until,
                   range_choice, fnVars>>

\* lines 152-156: the latest bar is written into the buffer
LiveUpdate ==
    /\ pc = "fetch"
    /\ \E bar \in FetchChoices(session_prices.rows) :
          /\ latest' = bar
          /\ session_prices' = IF bar.empty THEN session_prices
                               ELSE LocSetRow(session_prices, bar.ts, bar.Price)
    /\ pc' = "reference"
    /\ UNCHANGED <<has_prices, has_until, strategy_computed_until, prices, plot_prices,
                   range_choice, cycles, start, fnVars>>

\* lines 161-170: prices names the buffer; the watermark starts at its least label
ReferencePrices ==
    /\ pc = "reference"
    /\ prices' = session_prices
    /\ has_until' = TRUE
    /\ strategy_computed_until' = IF has_until THEN strategy_computed_until
                                  ELSE IndexMin(session_prices.rows)
    /\ pc' = "strategy"
    /\ UNCHANGED <<has_prices, session_prices, latest, plot_prices, range_choice,
                   cycles, start, fnVars>>

\* new_data.any(), line 172-174
NewData(rows, until) == \E i \in 1..Len(rows) : rows[i].ts > until

\* AdvancedWatermark taking the last row's label for the greatest
AdvancedWatermarkLastRow(frame) == frame.rows[Len(frame.rows)].ts

\* the watermark after a pipeline run, line 181
AdvancedWatermark(frame) == IndexMax(frame.rows)

\* lines 172-181: with a label after the watermark, the pipeline and the watermark
RunStrategy ==
    /\ pc = "strategy"
    /\ IF NewData(prices.rows, strategy_computed_until)
       THEN /\ prices' = RunPipeline(prices)
            /\ strategy_computed_until' = AdvancedWatermark(prices')
       ELSE UNCHANGED <<prices, strategy_computed_until>>
    /\ pc' = "select"
    /\ UNCHANGED <<has_prices, session_prices, has_until, latest, plot_prices,
                   range_choice, cycles, start, fnVars>>

\* lines 64 and 183-194: the rows of the chosen range
SelectRange ==
    /\ pc = "select"
    /\ \E choice \in RangeChoices :
          /\ range_choice' = choice
          /\ plot_prices' = SelectFrom(prices, RangeStart(choice, IndexMax(prices.rows)))
    /\ pc' = "warmup"
    /\ UNCHANGED <<has_prices, session_prices, has_until, strategy_computed_until,
                   latest, prices, cycles, start, fnVars>>

\* lines 213-217: without a PnL column the run stops at "Strategy warming up"
WarmupCheck ==
    /\ pc = "warmup"
    /\ IF "PnL" \notin prices.cols
       THEN /\ pc' = "stopped"
            /\ prices' = EmptyFrame
            /\ plot_prices' = EmptyFrame
            /\ range_choice' = "1D"
       ELSE /\ pc' = "metrics"
            /\ UNCHANGED <<prices, plot_prices, range_choice>>
    /\ UNCHANGED <<has_prices, session_prices, has_until, strategy_computed_until,
                   latest, cycles, start, fnVars>>

\* lines 222-232: the metrics of the range, then the frame goes to the session state
ComputeMetrics ==
    /\ pc = "metrics"
    /\ session_prices' = prices
    /\ pc' = "render"
    /\ UNCHANGED <<has_prices, has_until, strategy_computed_until, latest, prices,
                   plot_prices, range_choice, cycles, start, fnVars>>

\* lines 239-398: the metrics row, the charts and the table
Render ==
    /\ pc = "render"
    /\ pc' = "done"
    /\ prices' = EmptyFrame
    /\ plot_prices' = EmptyFrame
    /\ range_choice' = "1D"
    /\ UNCHANGED <<has_prices, session_prices, has_until, strategy_computed_until,
                   latest, cycles, start, fnVars>>

\* the run ends where it is (an exception, the process made to stop the script):
\* the session state stays as the run left it, the run's locals are gone
Interrupt ==
    /\ pc \in Running
    /\ pc' = "interrupted"
    /\ prices' = EmptyFrame
    /\ plot_prices' = EmptyFrame
    /\ range_choice' = "1D"
    /\ UNCHANGED <<has_prices, session_prices, has_until, strategy_computed_until,
                   latest, cycles, start, fnVars>>

Next ==
    \/ InitialisePriceBuffer
    \/ Rerun
    \/ LiveUpdate
    \/ ReferencePrices
    \/ RunStrategy
    \/ SelectRange
    \/ WarmupCheck
    \/ ComputeMetrics
    \/ Render
    \/ Interrupt

Spec == Init /\ [][Next]_vars

(***************************************************************************)
(* The functions of strategy.py called on their own, in the order app.py   *)
(* calls them, on any small frame of prices and with any small windows.    *)
(***************************************************************************)
FnInputs ==
    UNION {{[cols |-> {"Price"}, rows |-> [i \in 1..n |-> PriceRow(i, p[i])]] :
              p \in [1..n -> 1..MaxFnPrice]} : n \in 0..MaxFnLen}

FnInit ==
    /\ AppInit
    /\ fn_stage = "input"
    /\ fn_prices \in FnInputs
    /\ fn_window \in 2..MaxFnWindow
    /\ fn_ma_window \in 1..MaxFnWindow

FnReturns ==
    /\ fn_stage = "input"
    /\ fn_prices' = compute_returns(fn_prices)
    /\ fn_stage' = "returns"
    /\ UNCHANGED <<fn_window, fn_ma_window, appVars>>

FnRealizedVol ==
    /\ fn_stage = "returns"
    /\ fn_prices' = compute_realized_vol(fn_prices, fn_window)
    /\ fn_stage' = "realized_vol"
    /\ UNCHANGED <<fn_window, fn_ma_window, appVars>>

FnSignal ==
    /\ fn_stage = "realized_vol"
    /\ fn_prices' = compute_signal(fn_prices, fn_ma_window)
    /\ fn_stage' = "signal"
    /\ UNCHANGED <<fn_window, fn_ma_window, appVars>>

FnPosition ==
    /\ fn_stage = "signal"
    /\ fn_prices' = compute_position(fn_prices, TargetVol, MaxLeverage)
    /\ fn_stage' = "position"
    /\ UNCHANGED <<fn_window, fn_ma_window, appVars>>

FnCumulativePnl ==
    /\ fn_stage = "position"
    /\ fn_prices' = compute_cumulative_pnl(fn_prices)
    /\ fn_stage' = "pnl"
    /\ UNCHANGED <<fn_window, fn_ma_window, appVars>>

FnNext ==
    \/ FnReturns
    \/ FnRealizedVol
    \/ FnSignal
    \/ FnPosition
    \/ FnCumulativePnl

PipeSpec == FnInit /\ [][FnNext]_vars

(***************************************************************************)
(* The claims.                                                             *)
(***************************************************************************)
Max(a, b) == IF a >= b THEN a ELSE b

\* a script run has come to its end (the last line, or st.stop())
RunEnded == pc \in {"done", "stopped"}

\* the fetched bar is a row of the frame: its label with its price
BarStored(rows, bar) == \E i \in 1..Len(rows) : rows[i].ts = bar.ts /\ rows[i].Price = bar.Price

\* the fetched bar's label is in the frame with another price
BarReplaces(rows, bar) == \E i \in 1..Len(rows) : rows[i].ts = bar.ts /\ rows[i].Price # bar.Price

\* the rows are in the strict order of their timestamps
Chronological(rows) == \A i \in 1..(Len(rows) - 1) : rows[i].ts < rows[i + 1].ts

\* C1: a script run over a chronological series that fetches a bar already stored
\* (same timestamp, same price), with no timestamp after the watermark, ends with the watermark and every stored
\* row, derived fields included, as they were when it began.
C1_RerunWithoutNewDataIsNoOp ==
    (/\ RunEnded
     /\ ~latest.empty
     /\ start.has_until
     /\ Chronological(start.prices.rows)
     /\ BarStored(start.prices.rows, latest)
     /\ ~NewData(start.prices.rows, start.until))
    => /\ session_prices = start.prices
       /\ strategy_computed_until = start.until

\* C2: the stored price series is strictly increasing by timestamp (so no two rows
\* share a timestamp), after initialisation and after every merge.
C2_StrictlyChronological == has_prices => Chronological(session_prices.rows)

\* C3: a script run over a (chronological) series of fewer than
\* max(vol_window, ma_window) rows never gets past the warm-up check to the metrics.
C3_WarmingUpBelowWindow ==
    (pc \in {"metrics", "render", "done"} /\ Chronological(session_prices.rows))
    => Len(session_prices.rows) >= Max(vol_window, ma_window)

\* C4: a script run over a chronological series with its derived columns that
\* fetches a bar whose timestamp is stored, at or before the watermark, with
\* another price ends with that price stored and with the derived
\* fields of the rows from that timestamp on being those the pipeline gives for the
\* stored prices.
C4_ReplacedPriceIsRecomputed ==
    (/\ RunEnded
     /\ ~latest.empty
     /\ start.has_until
     /\ latest.ts <= start.until
     /\ Chronological(start.prices.rows)
     /\ "PnL" \in start.prices.cols
     /\ BarReplaces(start.prices.rows, latest))
    => /\ BarStored(session_prices.rows, latest)
       /\ \A i \in 1..Len(session_prices.rows) :
             (\E j \in 1..i : session_prices.rows[j].ts = latest.ts)
             => session_prices.rows[i] = RunPipeline(session_prices).rows[i]

\* the watermark is not what it was when the run began (on a first run: not the
\* least timestamp, where it starts)
WatermarkMoved ==
    /\ has_until
    /\ IF start.has_until THEN strategy_computed_until # start.until
       ELSE strategy_computed_until # IndexMin(session_prices.rows)

\* C5: an interrupted script run leaves the watermark moved only together with the
\* recomputed rows: where the watermark has moved, the stored (chronological) frame
\* holds the derived columns the pipeline gives for it.
C5_InterruptedRunKeepsWatermark ==
    (pc = "interrupted" /\ WatermarkMoved /\ Chronological(session_prices.rows))
    => session_prices = RunPipeline(session_prices)

\* C6: in the frame compute_cumulative_pnl returns, PnL[t] is Position[t-1] times
\* Return[t] for every row t after the first, PnL is 0 where an operand is
\* undefined (the first row), and cumu_PnL[t] is the sum of PnL over rows 1..t.
C6_PnLUsesPreviousPosition ==
    fn_stage = "pnl" =>
        \A t \in 1..Len(fn_prices.rows) :
            LET rows == fn_prices.rows
                pnl  == [j \in 1..t |-> rows[j].PnL.v]
            IN  /\ IsNum(rows[t].PnL)
                /\ t = 1 => rows[t].PnL = Num(0)
                /\ t > 1 => rows[t].PnL = FMul(rows[t - 1].Position, rows[t].Return)
                /\ rows[t].cumu_PnL = Num(SumTo(pnl, 1, t))

\* a row whose PnL is not 0 and whose own position is not the previous row's
C6_Witness ==
    /\ fn_stage = "pnl"
    /\ \E t \in 2..Len(fn_prices.rows) :
          /\ fn_prices.rows[t].PnL # Num(0)
          /\ fn_prices.rows[t].Position # fn_prices.rows[t - 1].Position

Lookback(choice) ==
    CASE choice = "1D" -> MinutesPerDay
      [] choice = "1W" -> WeekDays * MinutesPerDay
      [] choice = "1M" -> MonthDays * MinutesPerDay
      [] choice = "1Y" -> 365 * MinutesPerDay

\* C8: the rows selected for a range are the contiguous suffix of the processed
\* (chronological) series within the range's lookback of its latest timestamp (all the rows when
\* the lookback exceeds the history), and the selection changes neither the stored
\* series nor the watermark.
C8_WindowIsLookbackSuffix ==
    [][(pc = "select" /\ pc' = "warmup" /\ Chronological(prices.rows)) =>
          LET rows  == prices.rows
              first == IndexMax(rows) - Lookback(range_choice')
          IN  /\ \E k \in 1..(Len(rows) + 1) :
                    /\ plot_prices'.rows = SubSeq(rows, k, Len(rows))
                    /\ \A i \in 1..Len(rows) : i >= k <=> rows[i].ts >= first
              /\ session_prices' = session_prices
              /\ strategy_computed_until' = strategy_computed_until]_vars

\* C9: in the frame compute_position returns, every Position is a number in
\* [0, max_leverage], is 0 where Signal is 0 and is 0 where Realized_Vol is
\* undefined; rows whose Realized_Vol is exactly 0 are among them.
C9_PositionWithinLeverage ==
    fn_stage \in {"position", "pnl"} =>
        \A t \in 1..Len(fn_prices.rows) :
            LET row == fn_prices.rows[t]
            IN  /\ IsNum(row.Position)
                /\ 0 <= row.Position.v
                /\ row.Position.v <= MaxLeverage
                /\ row.Signal = Num(0) => row.Position = Num(0)
                /\ IsNaN(row.Realized_Vol) => row.Position = Num(0)

\* a row with Realized_Vol exactly 0 in the long regime: the division by zero
C9_Witness ==
    /\ fn_stage = "position"
    /\ \E t \in 1..Len(fn_prices.rows) :
          /\ fn_prices.rows[t].Realized_Vol = Num(0)
          /\ fn_prices.rows[t].Signal = Num(1)
          /\ fn_prices.rows[t].Position = Num(MaxLeverage)

\* C10: the watermark never moves backward. It starts at the earliest stored
\* timestamp; the step of lines 172-181 leaves it alone when no stored timestamp
\* is after it and sets it to the latest stored timestamp otherwise; no other step
\* changes it.
C10_WatermarkNeverRegresses ==
    [][/\ has_until => (has_until' /\ strategy_computed_until' >= strategy_computed_until)
       /\ (~has_until /\ has_until') =>
             strategy_computed_until' = IndexMin(session_prices.rows)
       /\ (pc = "strategy" /\ pc' = "select") =>
             strategy_computed_until' =
                IF NewData(session_prices.rows, strategy_computed_until)
                THEN IndexMax(session_prices.rows)
                ELSE strategy_computed_until
       /\ (has_until /\ pc # "strategy") =>
             strategy_computed_until' = strategy_computed_until]_vars

\* a later run has moved the watermark on, to the latest stored timestamp
C10_Witness ==
    /\ start.has_until
    /\ strategy_computed_until > start.until
    /\ strategy_computed_until = IndexMax(session_prices.rows)

====
